---- MODULE Spec2Model ----
(***************************************************************************)
(* Model of the TotalSpineSeg preprocessing utilities:                     *)
(*   - fix_metadata.py: the paired-volume metadata reconciler and its      *)
(*     batch driver (main / process_map / _fix_metadata_wrapper);          *)
(*   - scripts/update_jsons.py, revert_jsons.py, update_json_order.py,     *)
(*     revert_json_order.py: the dataset JSON rewriting scripts.           *)
(*                                                                         *)
(* A file name is a sequence of tokens ("_0000", ".nii", ".gz", ...), so    *)
(* that str.replace and Path.stem act on it as they act on the text.       *)
(* A NIfTI volume is a record of the header fields the reconciler reads    *)
(* or writes plus a one-axis voxel array; an affine is abstracted to        *)
(* [zooms, rot, trans] (column norms, direction matrix, translation).      *)
(***************************************************************************)
EXTENDS Integers, Sequences, FiniteSets, TLC

VARIABLES
    fs,             \* filesystem: path -> volume file or Absent
    unwritable,     \* paths on which opening for writing raises
    fs0,            \* history: the filesystem before the first run
    snap,           \* history: the filesystem when the current run of main started
    prevOk,         \* history: items whose reconciliation succeeded in the previous run
    allBackupOk,    \* history: items all of whose reconciliations so far succeeded with a backup
    wlog,           \* history: per reference file, the paths its worker wrote in this run
    runs,           \* number of runs of main started so far
    limit,          \* number of runs of main the behaviour may start
    mpc,            \* position of main()
    no_backup,      \* args.no_backup of the current run
    max_workers,    \* args.max_workers
    ipc,            \* per reference file: position of _fix_metadata_wrapper
    loc,            \* per reference file: the worker's local variables
    results,        \* per reference file: the tuple returned by the wrapper
    fixed_count, error_count, missing_count,
    nm,             \* name-derivation check: the two file names under study
    derived,        \* name-derivation check: their derived paths
    js,             \* the four JSON files of the label scripts
    jpc             \* position of the running label script

vars == <<fs, unwritable, fs0, snap, prevOk, allBackupOk, wlog, runs, limit, mpc, no_backup,
          max_workers, ipc, loc,
          results, fixed_count, error_count, missing_count, nm, derived, js, jpc>>

reconcilerVars == <<fs, unwritable, fs0, snap, prevOk, allBackupOk, wlog, runs, limit, mpc, no_backup,
                    max_workers, ipc,
                    loc, results, fixed_count, error_count, missing_count>>
nameVars == <<nm, derived>>
jsonVars == <<js, jpc>>

-----------------------------------------------------------------------------
(* Bounds *)

MaxShape == 2        \* voxels along the modelled axis
MaxRuns == 2         \* runs of main() on the same dataset
NFiles == 2          \* reference files in imagesTr in the batch specification
BatchRuns == 1       \* runs of main() in the batch specification
MaxWorkers == 2      \* largest --max-workers
MaxPrefix == 3       \* tokens before the channel suffix in the name check
MaxUpdates == 4      \* runs of update_jsons.py since the last revert_jsons.py

-----------------------------------------------------------------------------
(* File names: str.replace, Path.stem, glob *)


SUFFIX_0000 == <<"_0000", ".nii", ".gz">>
SUFFIX_0001 == <<"_0001", ".nii", ".gz">>

IsPrefixAt(s, pat, i) ==
    /\ i + Len(pat) - 1 <= Len(s)
    /\ \A k \in 1..Len(pat) : s[i + k - 1] = pat[k]

\* str.replace(old, new): every non-overlapping occurrence, left to right
RECURSIVE ReplaceFrom(_, _, _, _)
ReplaceFrom(s, old, new, i) ==
    IF i > Len(s) THEN <<>>
    ELSE IF IsPrefixAt(s, old, i)
         THEN new \o ReplaceFrom(s, old, new, i + Len(old))
         ELSE <<s[i]>> \o ReplaceFrom(s, old, new, i + 1)

Replace(s, old, new) == ReplaceFrom(s, old, new, 1)

EndsWith(s, suf) ==
    /\ Len(s) >= Len(suf)
    /\ IsPrefixAt(s, suf, Len(s) - Len(suf) + 1)

\* Path.glob('*_0000.nii.gz')
GlobMatches(name) == EndsWith(name, SUFFIX_0000)

\* Path.stem: the name without its last suffix (here the last token, ".gz")
Stem(name) == SubSeq(name, 1, Len(name) - 1)

\* line 21: img_0000_path.name.replace('_0000.nii.gz', '_0001.nii.gz')
DependentName(name) == Replace(name, SUFFIX_0000, SUFFIX_0001)

\* line 74: image_0001_path.stem.replace('.nii', '_backup.nii') + '.gz'
BackupName(depname) == Replace(Stem(depname), <<".nii">>, <<"_backup", ".nii">>) \o <<".gz">>

-----------------------------------------------------------------------------
(* The image library as the reconciler uses it (nibabel's Nifti1Image):     *)
(* a header holds dim, datatype, the qform parameters (pixdim, quatern,    *)
(* qoffset), the sform rows (srow) and the two codes.                      *)

Affine(z, r, t) == [zooms |-> z, rot |-> r, trans |-> t]

\* the closest orthogonal matrix (set_qform strips shears: "S" is the sheared
\* direction matrix, the others are orthogonal)
PolarDecomposition(r) == IF r = "S" THEN "I" ELSE r

get_sform(hdr) == hdr.srow
get_qform(hdr) == Affine(hdr.pixdim, hdr.quatern, hdr.qoffset)
\* the fallback affine: x-flipped zooms, origin at the centre of the voxel grid,
\* so its translation is (dim - 1) / 2 * pixdim (kept doubled)
get_base_affine(hdr) == Affine(hdr.pixdim, "F", (hdr.dim - 1) * hdr.pixdim)

get_best_affine(hdr) ==
    IF hdr.sform_code # 0 THEN get_sform(hdr)
    ELSE IF hdr.qform_code # 0 THEN get_qform(hdr)
    ELSE get_base_affine(hdr)

hdr_set_sform(hdr, affine, code) ==
    [hdr EXCEPT !.sform_code = code, !.srow = affine]

hdr_set_qform(hdr, affine, code) ==
    [hdr EXCEPT !.qform_code = code,
                !.pixdim = affine.zooms,
                !.quatern = PolarDecomposition(affine.rot),
                !.qoffset = affine.trans]

\* Nifti1Pair._affine2header: sform 'aligned' (2), qform 'unknown' (0)
affine2header(hdr, affine) == hdr_set_qform(hdr_set_sform(hdr, affine, 2), affine, 0)

\* SpatialImage.update_header: harmonise the header with the data shape and
\* the image affine
update_header(hdr, shape, affine) ==
    LET h1 == IF hdr.dim # shape THEN [hdr EXCEPT !.dim = shape] ELSE hdr
    IN  IF affine = get_best_affine(h1) THEN h1 ELSE affine2header(h1, affine)

\* nib.load: header, affine taken from the header, voxel data left on disk
Load(file) == [hdr |-> file.hdr, affine |-> get_best_affine(file.hdr)]

\* nib.Nifti1Image(dataobj, affine, header)
Nifti1Image(dataobj, affine, header) ==
    [hdr |-> update_header(header, Len(dataobj), affine),
     affine |-> affine,
     data |-> dataobj]

set_data_dtype(img, dt) == [img EXCEPT !.hdr.datatype = dt]

\* Nifti1Image.set_qform / set_sform (update_affine defaults to True)
set_qform(img, affine, code) ==
    LET h == hdr_set_qform(img.hdr, affine, code)
    IN  [img EXCEPT !.hdr = h, !.affine = get_best_affine(h)]

set_sform(img, affine, code) ==
    LET h == hdr_set_sform(img.hdr, affine, code)
    IN  [img EXCEPT !.hdr = h, !.affine = get_best_affine(h)]

\* nib.save: update_header, then header and voxels go to the file
SavedFile(img) ==
    [bad |-> "no",
     hdr |-> update_header(img.hdr, Len(img.data), img.affine),
     data |-> img.data]

\* variant: a saturating cast instead of numpy's wrap-around
AsUint8Saturating(v) == IF v > 255 THEN 255 ELSE IF v < 0 THEN 0 ELSE v

\* ndarray.astype(np.uint8) on an integer voxel
AsUint8(v) == v % 256

\* astype raises on a structured (RGB) voxel type
CanCast(dt) == dt # "rgb"

-----------------------------------------------------------------------------
(* fix_metadata, lines 45-67: the reconciled image                         *)

data_0001(file) == [k \in 1..Len(file.data) |-> AsUint8(file.data[k])]

\* variant: the qform is set from the dependent's own affine
fixed_img_own_qform(img_0000, file_0001) ==
    LET ref_affine == img_0000.affine
        ref_header == img_0000.hdr
        img_a == Nifti1Image(data_0001(file_0001), ref_affine, ref_header)
        img_b == set_data_dtype(img_a, "uint8")
        img_c == set_qform(img_b, get_best_affine(file_0001.hdr), img_0000.hdr.qform_code)
    IN  set_sform(img_c, ref_affine, img_0000.hdr.sform_code)

fixed_img_0001(img_0000, file_0001) ==
    LET ref_affine == img_0000.affine
        ref_header == img_0000.hdr
        img_a == Nifti1Image(data_0001(file_0001), ref_affine, ref_header)
        img_b == set_data_dtype(img_a, "uint8")
        qform_code == img_0000.hdr.qform_code
        sform_code == img_0000.hdr.sform_code
        img_c == set_qform(img_b, ref_affine, qform_code)
    IN  set_sform(img_c, ref_affine, sform_code)

\* the image written to backup_path: img_0001 as loaded, its voxels read from
\* the dependent file when the backup is saved
backup_img(img_0001, file_0001) ==
    [hdr |-> img_0001.hdr, affine |-> img_0001.affine, data |-> file_0001.data]

-----------------------------------------------------------------------------
(* The dataset directory                                                   *)

StemNames == <<"a", "b", "c", "d">>
TrStems == {StemNames[k] : k \in 1..NFiles}
TsStems == {StemNames[1]}

RefName(stem) == <<stem>> \o SUFFIX_0000

\* line 21: img_0000_path.parent / <the substituted name>
dependent_path(p) == <<p[1], DependentName(p[2])>>
\* line 74: image_0001_path.parent / <the backup name>
backup_path(dp) == <<dp[1], BackupName(dp[2])>>

RefPaths == {<<"imagesTr", RefName(s)>> : s \in TrStems}
            \cup {<<"imagesTs", RefName(s)>> : s \in TsStems}
DepPaths == {dependent_path(p) : p \in RefPaths}
BackupPaths == {backup_path(dp) : dp \in DepPaths}
Paths == RefPaths \cup DepPaths \cup BackupPaths

NoAffine == Affine(0, "I", 0)
NoHdr == [dim |-> 0, datatype |-> "none", pixdim |-> 0, quatern |-> "I", qoffset |-> 0,
          srow |-> NoAffine, qform_code |-> 0, sform_code |-> 0]
Absent == [bad |-> "absent", hdr |-> NoHdr, data |-> <<>>]
NoLoaded == [hdr |-> NoHdr, affine |-> NoAffine]
NoImg == [hdr |-> NoHdr, affine |-> NoAffine, data |-> <<>>]
NoLocals == [img_0000 |-> NoLoaded, img_0001 |-> NoLoaded, fixed |-> NoImg]
NoResult == [status |-> "none", name |-> <<>>, msg |-> ""]

\* variant: the existence check dropped
path_exists_always(file) == TRUE

\* Path.exists()
path_exists(file) == file.bad # "absent"

\* sorted(images_path.glob('*_0000.nii.gz')); the order plays no part in the counts
image_0000_files(files, dir) ==
    {p \in Paths : p[1] = dir /\ GlobMatches(p[2]) /\ files[p] # Absent}

-----------------------------------------------------------------------------
(* Initial volumes                                                         *)

VoxelValues == {-1, 1, 257}

\* a reference volume: qform and sform disagree, the sform is sheared
RefVol(qc, sc, dim, bad) ==
    [bad |-> bad,
     hdr |-> [dim |-> dim, datatype |-> "int16", pixdim |-> 2, quatern |-> "R",
              qoffset |-> 5, srow |-> Affine(3, "S", 7),
              qform_code |-> qc, sform_code |-> sc],
     data |-> [k \in 1..dim |-> 0]]

DepVol(dt, data, bad) ==
    [bad |-> bad,
     hdr |-> [dim |-> Len(data), datatype |-> dt, pixdim |-> 1, quatern |-> "I",
              qoffset |-> 0, srow |-> Affine(1, "I", 0),
              qform_code |-> 1, sform_code |-> 1],
     data |-> data]

Datas == UNION {[1..n -> VoxelValues] : n \in 1..MaxShape}

RefVolumes == {RefVol(qc, sc, MaxShape, "no") : qc \in {0, 1}, sc \in {0, 2}}
              \cup {RefVol(1, 2, MaxShape, b) : b \in {"hdr", "data"}}
DepVolumes == {DepVol("int16", d, "no") : d \in Datas}
              \cup {DepVol("rgb", <<1>>, "no")}
              \cup {DepVol("int16", <<1>>, b) : b \in {"hdr", "data"}}
              \cup {Absent}
\* a backup left by an earlier, unrelated run
StaleBackup == DepVol("int16", <<257>>, "no")

PlainRef == RefVol(1, 2, 1, "no")
PlainDep == DepVol("int16", <<257>>, "no")

FocusRef == <<"imagesTr", RefName(StemNames[1])>>
TsRef == <<"imagesTs", RefName(StemNames[1])>>

InitControl ==
    /\ fs0 = fs
    /\ snap = fs
    /\ prevOk = {}
    /\ allBackupOk = RefPaths
    /\ wlog = [p \in RefPaths |-> {}]
    /\ runs = 0
    /\ mpc = "idle"
    /\ no_backup = FALSE
    /\ ipc = [p \in RefPaths |-> "none"]
    /\ loc = [p \in RefPaths |-> NoLocals]
    /\ results = [p \in RefPaths |-> NoResult]
    /\ fixed_count = 0 /\ error_count = 0 /\ missing_count = 0

\* one pair in imagesTr with every kind of content, an optional plain pair in
\* imagesTs, or an empty dataset
InitFiles ==
    \/ \E r \in RefVolumes, d \in DepVolumes, b \in {Absent, StaleBackup},
          ts \in BOOLEAN :
          fs = [p \in Paths |->
                  IF p = FocusRef THEN r
                  ELSE IF p = dependent_path(FocusRef) THEN d
                  ELSE IF p = backup_path(dependent_path(FocusRef)) THEN b
                  ELSE IF ts /\ p = TsRef THEN PlainRef
                  ELSE IF ts /\ p = dependent_path(TsRef) THEN PlainDep
                  ELSE Absent]
    \/ fs = [p \in Paths |-> Absent]

-----------------------------------------------------------------------------
(* _fix_metadata_wrapper and fix_metadata, one worker per reference file   *)

Success == [status |-> "success", name |-> <<>>, msg |-> ""]
Missing(refname) == [status |-> "missing", name |-> refname, msg |-> ""]
Error(depname, msg) == [status |-> "error", name |-> depname, msg |-> msg]

\* variant: the flag taken the wrong way round
overwrite_inverted == ~no_backup

\* line 101: overwrite = args.no_backup
overwrite == no_backup

\* variant: except OSError, so a failing cast escapes the wrapper
ExceptOSErrorOnly(depname, msg) ==
    IF msg = "cannot cast"
    THEN [pc |-> "raised", result |-> NoResult]
    ELSE [pc |-> "done", result |-> Error(depname, msg)]

\* variant: no except clause, the exception leaves the worker
ExceptNothing(depname, msg) == [pc |-> "raised", result |-> NoResult]

\* lines 29-30: except Exception as e: return ('error', f"{name}: {e}")
ExceptClause(depname, msg) == [pc |-> "done", result |-> Error(depname, msg)]

Running == {q \in RefPaths : ipc[q] \notin {"none", "queued", "done"}}

Return(p, res) ==
    /\ ipc' = [ipc EXCEPT ![p] = "done"]
    /\ results' = [results EXCEPT ![p] = res]
    /\ loc' = [loc EXCEPT ![p] = NoLocals]
    /\ allBackupOk' = IF res.status = "success" /\ ~overwrite
                      THEN allBackupOk ELSE allBackupOk \ {p}

Raise(p, msg) ==
    LET h == ExceptClause(dependent_path(p)[2], msg)
    IN  /\ ipc' = [ipc EXCEPT ![p] = h.pc]
        /\ results' = [results EXCEPT ![p] = h.result]
        /\ loc' = [loc EXCEPT ![p] = NoLocals]
        /\ allBackupOk' = allBackupOk \ {p}

mainVars == <<unwritable, fs0, snap, prevOk, runs, limit, mpc, no_backup, max_workers,
              fixed_count, error_count, missing_count>>

\* lines 21-24: a free worker takes the file; the companion must exist
WrapperExists(p) ==
    /\ ipc[p] = "queued"
    /\ Cardinality(Running) < max_workers
    /\ IF path_exists(fs[dependent_path(p)])
       THEN /\ ipc' = [ipc EXCEPT ![p] = "load_0000"]
            /\ UNCHANGED <<results, loc, allBackupOk>>
       ELSE Return(p, Missing(p[2]))
    /\ UNCHANGED <<fs, wlog, mainVars, nameVars, jsonVars>>

\* line 46: nib.load(image_0000_path) reads the header only
LoadReference(p) ==
    /\ ipc[p] = "load_0000"
    /\ IF fs[p].bad \in {"absent", "hdr"}
       THEN Raise(p, "cannot load reference")
       ELSE /\ loc' = [loc EXCEPT ![p].img_0000 = Load(fs[p])]
            /\ ipc' = [ipc EXCEPT ![p] = "load_0001"]
            /\ UNCHANGED <<results, allBackupOk>>
    /\ UNCHANGED <<fs, wlog, mainVars, nameVars, jsonVars>>

\* lines 47-67: load the dependent, read and cast its voxels, build the fixed image
LoadDependent(p) ==
    LET file == fs[dependent_path(p)] IN
    /\ ipc[p] = "load_0001"
    /\ IF file.bad \in {"absent", "hdr"} THEN Raise(p, "cannot load dependent")
       ELSE IF file.bad = "data" THEN Raise(p, "cannot read voxels")
       ELSE IF ~CanCast(file.hdr.datatype) THEN Raise(p, "cannot cast")
       ELSE /\ loc' = [loc EXCEPT ![p].img_0001 = Load(file),
                                  ![p].fixed = fixed_img_0001(loc[p].img_0000, file)]
            /\ ipc' = [ipc EXCEPT ![p] = "save"]
            /\ UNCHANGED <<results, allBackupOk>>
    /\ UNCHANGED <<fs, wlog, mainVars, nameVars, jsonVars>>

\* lines 70-72: overwrite, the fixed image replaces the dependent file
SaveDirect(p) ==
    LET dp == dependent_path(p) IN
    /\ ipc[p] = "save"
    /\ overwrite
    /\ IF dp \in unwritable
       THEN Raise(p, "cannot write dependent") /\ UNCHANGED <<fs, wlog>>
       ELSE /\ fs' = [fs EXCEPT ![dp] = SavedFile(loc[p].fixed)]
            /\ wlog' = [wlog EXCEPT ![p] = @ \cup {dp}]
            /\ Return(p, Success)
    /\ UNCHANGED <<mainVars, nameVars, jsonVars>>

\* variant: the fixed image is saved as the backup
backup_source_fixed(p) == loc[p].fixed

\* lines 74-75: the image saved at backup_path
backup_source(p) == backup_img(loc[p].img_0001, fs[dependent_path(p)])

\* lines 73-75: no overwrite, img_0001 is saved at backup_path first
SaveBackup(p) ==
    LET dp == dependent_path(p)
        bp == backup_path(dp)
    IN
    /\ ipc[p] = "save"
    /\ ~overwrite
    /\ IF bp \in unwritable
       THEN Raise(p, "cannot write backup") /\ UNCHANGED <<fs, wlog>>
       ELSE /\ fs' = [fs EXCEPT ![bp] = SavedFile(backup_source(p))]
            /\ wlog' = [wlog EXCEPT ![p] = @ \cup {bp}]
            /\ ipc' = [ipc EXCEPT ![p] = "save_fixed"]
            /\ UNCHANGED <<results, loc, allBackupOk>>
    /\ UNCHANGED <<mainVars, nameVars, jsonVars>>

\* lines 76-77: then the fixed image replaces the dependent file
SaveFixed(p) ==
    LET dp == dependent_path(p) IN
    /\ ipc[p] = "save_fixed"
    /\ IF dp \in unwritable
       THEN Raise(p, "cannot write dependent") /\ UNCHANGED <<fs, wlog>>
       ELSE /\ fs' = [fs EXCEPT ![dp] = SavedFile(loc[p].fixed)]
            /\ wlog' = [wlog EXCEPT ![p] = @ \cup {dp}]
            /\ Return(p, Success)
    /\ UNCHANGED <<mainVars, nameVars, jsonVars>>

-----------------------------------------------------------------------------
(* main                                                                    *)

CountStatus(rs, files, st) == Cardinality({p \in files : rs[p].status = st})

workerVars == <<ipc, loc, results>>

\* lines 98-116: a run starts with the parsed flag
MainBegin ==
    /\ mpc \in {"idle", "summary", "returned"}
    /\ runs < limit
    /\ \E nb \in BOOLEAN : no_backup' = nb
    /\ runs' = runs + 1
    /\ snap' = fs
    /\ prevOk' = {p \in RefPaths : results[p].status = "success"}
    /\ mpc' = "glob"
    /\ ipc' = [p \in RefPaths |-> "none"]
    /\ loc' = [p \in RefPaths |-> NoLocals]
    /\ results' = [p \in RefPaths |-> NoResult]
    /\ fixed_count' = 0 /\ error_count' = 0 /\ missing_count' = 0
    /\ wlog' = [p \in RefPaths |-> {}]
    /\ UNCHANGED <<fs, unwritable, fs0, allBackupOk, limit, max_workers, nameVars, jsonVars>>

\* lines 118-120: no reference file in imagesTr, main returns
MainNoFiles ==
    /\ mpc = "glob"
    /\ image_0000_files(fs, "imagesTr") = {}
    /\ mpc' = "returned"
    /\ UNCHANGED <<fs, unwritable, fs0, snap, prevOk, allBackupOk, wlog, runs, limit, no_backup, max_workers, workerVars,
                   fixed_count, error_count, missing_count, nameVars, jsonVars>>

\* lines 129-135: process_map over the files of imagesTr
MainMapTr ==
    /\ mpc = "glob"
    /\ image_0000_files(fs, "imagesTr") # {}
    /\ ipc' = [p \in RefPaths |->
                 IF p \in image_0000_files(fs, "imagesTr") THEN "queued" ELSE ipc[p]]
    /\ mpc' = "mapTr"
    /\ UNCHANGED <<fs, unwritable, fs0, snap, prevOk, allBackupOk, wlog, runs, limit, no_backup, max_workers, loc, results,
                   fixed_count, error_count, missing_count, nameVars, jsonVars>>

Mapped(dir) == {p \in RefPaths : p[1] = dir /\ ipc[p] # "none"}

\* lines 138-140: every worker has returned, the results are counted
MainCountTr ==
    /\ mpc = "mapTr"
    /\ \A p \in Mapped("imagesTr") : ipc[p] = "done"
    /\ fixed_count' = CountStatus(results, Mapped("imagesTr"), "success")
    /\ error_count' = CountStatus(results, Mapped("imagesTr"), "error")
    /\ missing_count' = CountStatus(results, Mapped("imagesTr"), "missing")
    /\ mpc' = "ts"
    /\ UNCHANGED <<fs, unwritable, fs0, snap, prevOk, allBackupOk, wlog, runs, limit, no_backup, max_workers, workerVars,
                   nameVars, jsonVars>>

\* lines 148-161: process_map over the files of imagesTs, when there are any
MainMapTs ==
    /\ mpc = "ts"
    /\ image_0000_files(fs, "imagesTs") # {}
    /\ ipc' = [p \in RefPaths |->
                 IF p \in image_0000_files(fs, "imagesTs") THEN "queued" ELSE ipc[p]]
    /\ mpc' = "mapTs"
    /\ UNCHANGED <<fs, unwritable, fs0, snap, prevOk, allBackupOk, wlog, runs, limit, no_backup, max_workers, loc, results,
                   fixed_count, error_count, missing_count, nameVars, jsonVars>>

\* lines 149-152 not taken, lines 173-178: the summary
MainSkipTs ==
    /\ mpc = "ts"
    /\ image_0000_files(fs, "imagesTs") = {}
    /\ mpc' = "summary"
    /\ UNCHANGED <<fs, unwritable, fs0, snap, prevOk, allBackupOk, wlog, runs, limit, no_backup, max_workers, workerVars,
                   fixed_count, error_count, missing_count, nameVars, jsonVars>>

\* lines 164-166, 173-178: the test results are added, then the summary
MainCountTs ==
    /\ mpc = "mapTs"
    /\ \A p \in Mapped("imagesTs") : ipc[p] = "done"
    /\ fixed_count' = fixed_count + CountStatus(results, Mapped("imagesTs"), "success")
    /\ error_count' = error_count + CountStatus(results, Mapped("imagesTs"), "error")
    /\ missing_count' = missing_count + CountStatus(results, Mapped("imagesTs"), "missing")
    /\ mpc' = "summary"
    /\ UNCHANGED <<fs, unwritable, fs0, snap, prevOk, allBackupOk, wlog, runs, limit, no_backup, max_workers, workerVars,
                   nameVars, jsonVars>>

Worker(p) ==
    \/ WrapperExists(p)
    \/ LoadReference(p)
    \/ LoadDependent(p)
    \/ SaveDirect(p)
    \/ SaveBackup(p)
    \/ SaveFixed(p)

NextReconciler ==
    \/ MainBegin
    \/ MainNoFiles
    \/ MainMapTr
    \/ MainCountTr
    \/ MainMapTs
    \/ MainSkipTs
    \/ MainCountTs
    \/ \E p \in RefPaths : Worker(p)

-----------------------------------------------------------------------------
(* The label scripts: four JSON files, rewritten one function at a time    *)

IntValue(n) == [list |-> FALSE, v |-> <<n>>]
ListValue(q) == [list |-> TRUE, v |-> q]

Range(a, b) == [k \in 1..(b - a) |-> a + k - 1]

\* revert_jsons.py lines 5-25
Step1Dataset ==
    [labels |-> [background |-> IntValue(0), disc |-> ListValue(<<1, 2, 3, 4, 5>>),
                 disc_C2_C3 |-> IntValue(2), disc_C7_T1 |-> IntValue(3), disc_T12_L1 |-> IntValue(4),
                 disc_L5_S |-> IntValue(5), vertebrae |-> ListValue(<<6, 7>>),
                 vertebrae_C1 |-> IntValue(7), canal |-> ListValue(<<8, 9>>), cord |-> IntValue(9),
                 LDH |-> IntValue(10)],
     regions_class_order |-> <<1, 2, 3, 4, 5, 6, 7, 8, 9, 10>>]

\* revert_jsons.py lines 32-55
Step2Dataset ==
    [labels |-> [background |-> IntValue(0), disc |-> ListValue(<<1, 2, 3, 4, 5>>),
                 disc_C2_C3 |-> IntValue(2), disc_C7_T1 |-> IntValue(3), disc_T12_L1 |-> IntValue(4),
                 disc_L5_S |-> IntValue(5), vertebrae |-> ListValue(<<6, 7, 8, 9>>),
                 vertebrae_O |-> IntValue(7), vertebrae_E |-> IntValue(8), sacrum |-> IntValue(9),
                 canal |-> ListValue(<<10, 11>>), cord |-> IntValue(11), LDH |-> IntValue(12)],
     regions_class_order |-> <<1, 2, 3, 4, 5, 6, 7, 8, 9, 10, 11, 12>>]

DiscKeys == {"64", "65", "66", "67", "72", "73", "74", "75", "76", "77", "78", "79",
             "80", "81", "82", "92", "93", "94", "95"}
VertebraeKeys == {"11", "12", "13", "14", "15", "16", "17", "21", "22", "23", "24", "25",
                  "26", "27", "28", "29", "30", "31", "32", "41", "42", "43", "44", "45"}
OddKeys == {"11", "13", "15", "17", "22", "24", "26", "28", "30", "32", "42", "44"}
MapKeys == DiscKeys \cup VertebraeKeys
           \cup {"63", "71", "91", "100", "50", "2", "1", "101"}

\* revert_jsons.py lines 64-74
Step1Map ==
    [k \in MapKeys |->
        IF k \in DiscKeys THEN 1 ELSE IF k = "63" THEN 2 ELSE IF k = "71" THEN 3
        ELSE IF k = "91" THEN 4 ELSE IF k = "100" THEN 5
        ELSE IF k \in VertebraeKeys \cup {"50"} THEN 6
        ELSE IF k = "2" THEN 8 ELSE IF k = "1" THEN 9 ELSE 10]

\* revert_jsons.py lines 95-107
Step2Map ==
    [k \in MapKeys |->
        IF k \in DiscKeys THEN 1 ELSE IF k = "63" THEN 2 ELSE IF k = "71" THEN 3
        ELSE IF k = "91" THEN 4 ELSE IF k = "100" THEN 5
        ELSE IF k \in OddKeys THEN 7 ELSE IF k \in VertebraeKeys THEN 8
        ELSE IF k = "50" THEN 9
        ELSE IF k = "2" THEN 10 ELSE IF k = "1" THEN 11 ELSE 12]

\* the files as revert_jsons.py leaves them
RevertedJsons ==
    [dataset_step1 |-> Step1Dataset, dataset_step2 |-> Step2Dataset,
     nnunet_step1 |-> Step1Map, nnunet_step2 |-> Step2Map,
     updates |-> 0,                 \* history: update_jsons.py runs since the last revert
     last |-> "revert_jsons",       \* history: the script that ran last
     before |-> <<Step1Dataset.regions_class_order, Step2Dataset.regions_class_order>>]

\* update_jsons.py lines 7-12 and 41-45
shifted_map(data) ==
    [k \in DOMAIN data \cup {"101"} |-> IF k \in DOMAIN data THEN data[k] + 1 ELSE 1]

Shift(value) == [value EXCEPT !.v = [i \in 1..Len(value.v) |-> value.v[i] + 1]]

\* update_jsons.py lines 21-29 and 54-62: "LDH": 1 comes first, then every
\* key of the old table but "background" is stored with its value plus one
new_labels(labels) ==
    [k \in DOMAIN labels \cup {"background", "LDH"} |->
        IF k = "background" THEN IntValue(0)
        ELSE IF k \in DOMAIN labels THEN Shift(labels[k])
        ELSE IntValue(1)]

\* list.remove(x): the first occurrence
RemoveFirst(q, x) ==
    LET i == CHOOSE j \in 1..Len(q) : q[j] = x /\ \A h \in 1..(j - 1) : q[h] # x
    IN  SubSeq(q, 1, i - 1) \o SubSeq(q, i + 1, Len(q))

Contains(q, x) == \E j \in 1..Len(q) : q[j] = x

\* update_json_order.py lines 8-13 and 23-28
ldh_first(current_order, code) ==
    IF Contains(current_order, code)
    THEN <<code>> \o RemoveFirst(current_order, code)
    ELSE current_order

Orders == <<js.dataset_step1.regions_class_order, js.dataset_step2.regions_class_order>>

Finish(files, script) == [files EXCEPT !.last = script]
Begin(files) == [files EXCEPT !.before = Orders]

\* update_jsons.py
update_step1_map ==
    /\ jpc = "idle"
    /\ js.updates < MaxUpdates
    /\ js' = [Begin(js) EXCEPT !.nnunet_step1 = shifted_map(@), !.updates = @ + 1]
    /\ jpc' = "update_step1_dataset"
    /\ UNCHANGED <<reconcilerVars, nameVars>>

update_step1_dataset ==
    /\ jpc = "update_step1_dataset"
    /\ js' = [js EXCEPT !.dataset_step1.labels = new_labels(@),
                        !.dataset_step1.regions_class_order = Range(1, 11)]
    /\ jpc' = "update_step2_map"
    /\ UNCHANGED <<reconcilerVars, nameVars>>

update_step2_map ==
    /\ jpc = "update_step2_map"
    /\ js' = [js EXCEPT !.nnunet_step2 = shifted_map(@)]
    /\ jpc' = "update_step2_dataset"
    /\ UNCHANGED <<reconcilerVars, nameVars>>

update_step2_dataset ==
    /\ jpc = "update_step2_dataset"
    /\ js' = Finish([js EXCEPT !.dataset_step2.labels = new_labels(@),
                               !.dataset_step2.regions_class_order = Range(1, 13)],
                    "update_jsons")
    /\ jpc' = "idle"
    /\ UNCHANGED <<reconcilerVars, nameVars>>

\* revert_jsons.py
revert_and_append_ldh_step1 ==
    /\ jpc = "idle"
    /\ js' = [Begin(js) EXCEPT !.dataset_step1 = Step1Dataset, !.updates = 0]
    /\ jpc' = "revert_and_append_ldh_step2"
    /\ UNCHANGED <<reconcilerVars, nameVars>>

revert_and_append_ldh_step2 ==
    /\ jpc = "revert_and_append_ldh_step2"
    /\ js' = [js EXCEPT !.dataset_step2 = Step2Dataset]
    /\ jpc' = "update_maps"
    /\ UNCHANGED <<reconcilerVars, nameVars>>

update_maps ==
    /\ jpc = "update_maps"
    /\ js' = Finish([js EXCEPT !.nnunet_step1 = Step1Map, !.nnunet_step2 = Step2Map],
                    "revert_jsons")
    /\ jpc' = "idle"
    /\ UNCHANGED <<reconcilerVars, nameVars>>

\* update_json_order.py
update_step1_json ==
    /\ jpc = "idle"
    /\ js' = [Begin(js) EXCEPT !.dataset_step1.regions_class_order = ldh_first(@, 10)]
    /\ jpc' = "update_step2_json"
    /\ UNCHANGED <<reconcilerVars, nameVars>>

update_step2_json ==
    /\ jpc = "update_step2_json"
    /\ js' = Finish([js EXCEPT !.dataset_step2.regions_class_order = ldh_first(@, 12)],
                    "update_json_order")
    /\ jpc' = "idle"
    /\ UNCHANGED <<reconcilerVars, nameVars>>

\* revert_json_order.py
revert_step1_json ==
    /\ jpc = "idle"
    /\ js' = [Begin(js) EXCEPT !.dataset_step1.regions_class_order = Range(1, 11)]
    /\ jpc' = "revert_step2_json"
    /\ UNCHANGED <<reconcilerVars, nameVars>>

revert_step2_json ==
    /\ jpc = "revert_step2_json"
    /\ js' = Finish([js EXCEPT !.dataset_step2.regions_class_order = Range(1, 13)],
                    "revert_json_order")
    /\ jpc' = "idle"
    /\ UNCHANGED <<reconcilerVars, nameVars>>

NextJson ==
    \/ update_step1_map
    \/ update_step1_dataset
    \/ update_step2_map
    \/ update_step2_dataset
    \/ revert_and_append_ldh_step1
    \/ revert_and_append_ldh_step2
    \/ update_maps
    \/ update_step1_json
    \/ update_step2_json
    \/ revert_step1_json
    \/ revert_step2_json

InitIdle ==
    /\ nm = <<>> /\ derived = <<>>
    /\ js = RevertedJsons /\ jpc = "idle"

Init ==
    /\ InitFiles
    /\ \E u \in {{}, {dependent_path(FocusRef)}, {backup_path(dependent_path(FocusRef))}} :
          unwritable = u
    /\ limit = MaxRuns
    /\ max_workers = MaxWorkers
    /\ InitControl
    /\ InitIdle

Next == NextReconciler

Spec == Init /\ [][Next]_vars

-----------------------------------------------------------------------------
(* Properties of the reconciler                                            *)

Succeeded(p) == ipc[p] = "done" /\ results[p].status = "success"

\* the affine a reader of the file gets
FileAffine(file) == get_best_affine(file.hdr)

\* C1: after a successful reconciliation the dependent file has the
\* reference's affine, qform_code and sform_code.
C1_GeometryMatchesReference ==
    \A p \in RefPaths :
        Succeeded(p) =>
            LET dep == fs[dependent_path(p)]
                ref == fs[p]
            IN  /\ FileAffine(dep) = FileAffine(ref)
                /\ dep.hdr.qform_code = ref.hdr.qform_code
                /\ dep.hdr.sform_code = ref.hdr.sform_code

\* What the code does guarantee about geometry: the codes always match, and
\* the affine matches when the reference carries a coded transform or the two
\* volumes have the same shape.
GeometryMatchesWhenCoded ==
    \A p \in RefPaths :
        Succeeded(p) =>
            LET dep == fs[dependent_path(p)]
                ref == fs[p]
            IN  /\ dep.hdr.qform_code = ref.hdr.qform_code
                /\ dep.hdr.sform_code = ref.hdr.sform_code
                /\ (ref.hdr.qform_code # 0 \/ ref.hdr.sform_code # 0
                      \/ ref.hdr.dim = dep.hdr.dim)
                   => FileAffine(dep) = FileAffine(ref)

\* C2: after a successful reconciliation every voxel of the dependent file is
\* the original voxel modulo 256, stored as uint8, in the original dependent's
\* shape.
C2_VoxelsCastToUint8 ==
    \A p \in RefPaths :
        Succeeded(p) =>
            LET dep == fs[dependent_path(p)]
                orig == snap[dependent_path(p)]
            IN  /\ dep.hdr.datatype = "uint8"
                /\ dep.hdr.dim = orig.hdr.dim
                /\ Len(dep.data) = Len(orig.data)
                /\ \A k \in 1..Len(orig.data) :
                      /\ dep.data[k] \in 0..255
                      /\ \E m \in -1..1 : dep.data[k] = orig.data[k] + 256 * m

C2_Witness ==
    \E p \in RefPaths :
        /\ Succeeded(p)
        /\ snap[dependent_path(p)].hdr.dim # fs[p].hdr.dim
        /\ snap[dependent_path(p)].data[1] = 257
        /\ fs[dependent_path(p)].data[1] = 1

Reconciled(p) ==
    LET dep == fs[dependent_path(p)] IN
    /\ dep.bad = "no"
    /\ dep.hdr.datatype = "uint8"
    /\ dep.hdr.qform_code = fs[p].hdr.qform_code
    /\ dep.hdr.sform_code = fs[p].hdr.sform_code

\* C3: with backups requested the backup file receives the dependent's
\* pre-reconciliation content before the dependent file changes, and a
\* successful run leaves backup = old dependent and the dependent updated;
\* with --no-backup the backup path is never created or modified and a
\* successful run replaces the dependent directly.
C3_BackupMode ==
    \A p \in RefPaths :
        LET dp == dependent_path(p)
            bp == backup_path(dp)
        IN  /\ (ipc[p] # "none" /\ ~no_backup /\ (fs[dp] # snap[dp] \/ dp \in wlog[p]))
                  => (fs[bp] = snap[dp] /\ bp \in wlog[p])
            /\ (Succeeded(p) /\ ~no_backup)
                  => (fs[bp] = snap[dp] /\ Reconciled(p) /\ wlog[p] = {bp, dp})
            /\ (ipc[p] # "none" /\ no_backup) => (fs[bp] = snap[bp] /\ bp \notin wlog[p])
            /\ (Succeeded(p) /\ no_backup) => (Reconciled(p) /\ wlog[p] = {dp})

C3_Witness ==
    \E p \in RefPaths :
        /\ Succeeded(p) /\ ~no_backup
        /\ snap[backup_path(dependent_path(p))] = Absent
        /\ fs[backup_path(dependent_path(p))] = snap[dependent_path(p)]
        /\ fs[dependent_path(p)] # snap[dependent_path(p)]

\* C4: a reference file without companion yields ('missing', <its name>) and
\* its worker writes nothing: no file is created or modified.
C4_MissingWritesNothing ==
    \A p \in RefPaths :
        (ipc[p] = "done" /\ snap[dependent_path(p)] = Absent) =>
            /\ results[p] = Missing(p[2])
            /\ wlog[p] = {}
            /\ \A q \in {p, dependent_path(p), backup_path(dependent_path(p))} : fs[q] = snap[q]
            /\ (\A r \in RefPaths \ {p} : wlog[r] = {}) => fs = snap

C4_Witness ==
    \E p \in RefPaths :
        /\ ipc[p] = "done" /\ results[p].status = "missing"
        /\ snap[backup_path(dependent_path(p))] # Absent
        /\ mpc = "summary"

ErrorMessages == {"cannot load reference", "cannot load dependent", "cannot read voxels",
                  "cannot cast", "cannot write backup", "cannot write dependent"}

\* a failure the pair runs into while loading, transforming or saving
Fails(p) ==
    LET dp == dependent_path(p) IN
    \/ snap[p].bad = "hdr"
    \/ snap[dp].bad \in {"hdr", "data"}
    \/ snap[dp].hdr.datatype = "rgb"
    \/ dp \in unwritable
    \/ (~no_backup /\ backup_path(dp) \in unwritable)

\* C5: the wrapper returns exactly one of success, missing, error and never
\* raises; every failure becomes the error outcome with the dependent file's
\* name and the message.
C5_OutcomeNeverRaises ==
    \A p \in RefPaths :
        /\ ipc[p] \in {"none", "queued", "load_0000", "load_0001", "save", "save_fixed", "done"}
        /\ ipc[p] = "done" =>
              /\ results[p].status \in {"success", "missing", "error"}
              /\ results[p].status = "error" =>
                    /\ results[p].name = DependentName(p[2])
                    /\ results[p].msg \in ErrorMessages
              /\ (snap[dependent_path(p)] # Absent /\ Fails(p))
                    => results[p].status = "error"
        /\ ipc[p] # "done" => results[p] = NoResult

C5_Witness ==
    \E p \in RefPaths :
        /\ ipc[p] = "done"
        /\ results[p] = Error(DependentName(p[2]), "cannot cast")

\* C7: a second reconciliation after a successful one leaves the dependent
\* file exactly as the first left it.
C7_Idempotent ==
    \A p \in RefPaths :
        (Succeeded(p) /\ p \in prevOk /\ fs[p] = snap[p])
            => fs[dependent_path(p)] = snap[dependent_path(p)]

C7_Witness ==
    \E p \in RefPaths :
        /\ Succeeded(p) /\ p \in prevOk
        /\ fs0[dependent_path(p)] # fs[dependent_path(p)]
        /\ fs[p].hdr.sform_code = 0 /\ fs[p].hdr.qform_code = 0
        /\ fs[p].hdr.dim # fs[dependent_path(p)].hdr.dim

\* C9 as claimed: after any number of successful reconciliations with backups
\* requested the backup holds the dependent as it was before the first of them.
C9_BackupKeepsOriginal ==
    \A p \in RefPaths :
        (Succeeded(p) /\ ~no_backup /\ p \in allBackupOk)
            => fs[backup_path(dependent_path(p))] = fs0[dependent_path(p)]

\* C9 amended: the backup holds the dependent as it was at the start of the
\* last of those reconciliations: the original after the first run, the
\* already reconciled content (the dependent file itself) after a later one.
C9_BackupHoldsLastStart ==
    \A p \in RefPaths :
        (Succeeded(p) /\ ~no_backup /\ p \in allBackupOk) =>
            LET bp == backup_path(dependent_path(p)) IN
            /\ fs[bp] = snap[dependent_path(p)]
            /\ runs = 1 => fs[bp] = fs0[dependent_path(p)]
            /\ runs > 1 => fs[bp] = fs[dependent_path(p)]

C9_Witness ==
    \E p \in RefPaths :
        /\ Succeeded(p) /\ ~no_backup /\ p \in allBackupOk
        /\ runs > 1
        /\ fs[backup_path(dependent_path(p))] # fs0[dependent_path(p)]

-----------------------------------------------------------------------------
(* The batch: several pairs, workers interleaved                           *)

CorruptRef == RefVol(1, 2, 1, "hdr")
CorruptDep == DepVol("int16", <<1>>, "hdr")

\* what a directory may hold for one stem: nothing, or a reference file with
\* a good, unreadable or absent companion
PairContents ==
    << <<Absent, Absent>>, <<PlainRef, PlainDep>>, <<PlainRef, CorruptDep>>,
       <<PlainRef, Absent>>, <<CorruptRef, PlainDep>> >>

\* the files of imagesTr differ only in their stems, so their contents are
\* drawn in non-decreasing order
InitBatch ==
    /\ \E c \in [RefPaths -> 1..Len(PairContents)] :
          /\ \A j, k \in 1..NFiles :
                j < k => c[<<"imagesTr", RefName(StemNames[j])>>]
                           <= c[<<"imagesTr", RefName(StemNames[k])>>]
          /\ fs = [q \in Paths |->
                    IF q \in RefPaths THEN PairContents[c[q]][1]
                    ELSE IF q \in DepPaths
                         THEN PairContents[c[CHOOSE r \in RefPaths : dependent_path(r) = q]][2]
                         ELSE Absent]
    /\ unwritable = {}
    /\ limit = BatchRuns
    /\ \E w \in 1..MaxWorkers : max_workers = w
    /\ InitControl
    /\ InitIdle

SpecBatch == InitBatch /\ [][Next]_vars

\* the outcome a pair has coming, from the files as the run found them
Expected(p) ==
    IF snap[dependent_path(p)] = Absent THEN "missing"
    ELSE IF Fails(p) THEN "error"
    ELSE "success"

Globbed == image_0000_files(snap, "imagesTr") \cup image_0000_files(snap, "imagesTs")

\* C6: whatever the outcomes and the interleaving, every pair reaches its own
\* outcome (a failing pair stops no other: while a map is running some step is
\* always possible), and the summary counts are the numbers of succeeded,
\* companion-less and failed pairs, adding up to the number of reference files.
C6_BatchCounts ==
    /\ \A p \in RefPaths : ipc[p] = "done" => results[p].status = Expected(p)
    /\ mpc \in {"mapTr", "mapTs"} => ENABLED NextReconciler
    /\ mpc = "summary" =>
          /\ \A p \in Globbed : ipc[p] = "done"
          /\ fixed_count = Cardinality({p \in Globbed : Expected(p) = "success"})
          /\ missing_count = Cardinality({p \in Globbed : snap[dependent_path(p)] = Absent})
          /\ error_count = Cardinality({p \in Globbed : Expected(p) = "error"})
          /\ fixed_count + missing_count + error_count = Cardinality(Globbed)

C6_Witness ==
    /\ mpc = "summary"
    /\ fixed_count >= 1 /\ missing_count >= 1 /\ error_count >= 1
    /\ \E p \in Globbed : snap[dependent_path(p)].bad = "hdr"

-----------------------------------------------------------------------------
(* The label scripts from the files revert_jsons.py writes                 *)

InitEmptyDataset ==
    /\ fs = [p \in Paths |-> Absent]
    /\ unwritable = {}
    /\ limit = 0
    /\ max_workers = 1
    /\ InitControl

InitJson ==
    /\ InitEmptyDataset
    /\ nm = <<>> /\ derived = <<>>
    /\ js = RevertedJsons /\ jpc = "idle"

SpecJson == InitJson /\ [][NextJson]_vars

LDH(dataset) == dataset.labels.LDH.v[1]

\* C10: right after update_json_order.py the first element of
\* regions_class_order is the code the labels table gives 'LDH' and the other
\* elements keep their order; right after revert_json_order.py the last
\* element is that code.
C10_LDHFirstThenLast ==
    jpc = "idle" =>
        \A i \in 1..2 :
            LET dataset == IF i = 1 THEN js.dataset_step1 ELSE js.dataset_step2
                order == dataset.regions_class_order
            IN  /\ js.last = "update_json_order" =>
                      /\ order[1] = LDH(dataset)
                      /\ Tail(order) = SelectSeq(js.before[i], LAMBDA x : x # order[1])
                /\ js.last = "revert_json_order" => order[Len(order)] = LDH(dataset)

\* what the scripts do keep: the order scripts move the class codes 10 and 12,
\* and the labels table gives 'LDH' those codes plus the number of
\* update_jsons.py runs since the last revert
JsonOrderFacts ==
    jpc = "idle" =>
        /\ LDH(js.dataset_step1) = 10 + js.updates
        /\ LDH(js.dataset_step2) = 12 + js.updates
        /\ js.last = "update_json_order" =>
              /\ js.dataset_step1.regions_class_order[1] = 10
              /\ js.dataset_step2.regions_class_order[1] = 12
        /\ js.last = "revert_json_order" =>
              /\ js.dataset_step1.regions_class_order[10] = 10
              /\ js.dataset_step2.regions_class_order[12] = 12

-----------------------------------------------------------------------------
(* The paths two workers of one batch derive from two reference files      *)

Tokens == {"a", "_0000", "_0001", ".nii", ".gz", "_backup"}

\* the names Path.glob('*_0000.nii.gz') returns: any text, then the suffix
GlobNames == {pre \o SUFFIX_0000 : pre \in UNION {[1..n -> Tokens] : n \in 0..MaxPrefix}}

InitNames ==
    /\ InitEmptyDataset
    /\ \E n1, n2 \in GlobNames : n1 # n2 /\ nm = <<n1, n2>>
    /\ derived = <<>>
    /\ js = RevertedJsons /\ jpc = "idle"

\* line 21 in each of the two workers
DeriveDependent ==
    /\ derived = <<>>
    /\ derived' = [i \in 1..2 |-> [dep |-> DependentName(nm[i]), backup |-> <<>>]]
    /\ UNCHANGED <<nm, reconcilerVars, jsonVars>>

\* line 74 in each of the two workers
DeriveBackup ==
    /\ derived # <<>>
    /\ derived[1].backup = <<>>
    /\ derived' = [i \in 1..2 |-> [derived[i] EXCEPT !.backup = BackupName(derived[i].dep)]]
    /\ UNCHANGED <<nm, reconcilerVars, jsonVars>>

NextNames == DeriveDependent \/ DeriveBackup

SpecNames == InitNames /\ [][NextNames]_vars

Derived == derived # <<>> /\ derived[1].backup # <<>>

\* C8: two distinct reference files of one directory give distinct dependent
\* paths and distinct backup paths, and no path one worker writes is a path
\* the other reads or writes.
C8_WorkersTouchDistinctPaths ==
    Derived =>
        \A i, j \in 1..2 :
            i # j =>
                /\ derived[i].dep # derived[j].dep
                /\ derived[i].backup # derived[j].backup
                /\ {derived[i].dep, derived[i].backup}
                      \cap {nm[j], derived[j].dep, derived[j].backup} = {}

HasInner(name, pat) == \E i \in 1..(Len(name) - Len(SUFFIX_0000)) : IsPrefixAt(name, pat, i)

\* what the substitutions do keep: a written path is never a reference file,
\* a backup path is never a dependent path, and the paths of two workers are
\* apart unless a name carries a channel suffix before its end
NameFacts ==
    Derived =>
        /\ \A i \in 1..2 : ~GlobMatches(derived[i].dep) /\ ~GlobMatches(derived[i].backup)
        /\ \A i, j \in 1..2 : derived[i].backup # derived[j].dep
        /\ (\A i \in 1..2 : ~HasInner(nm[i], SUFFIX_0000) /\ ~HasInner(nm[i], SUFFIX_0001))
              => C8_WorkersTouchDistinctPaths

====
